---- MODULE Spec2Model ----
(***************************************************************************)
(* State-machine model of the mouth-track core:                            *)
(*   - CalibrationManager (src/module/utils/Smoother.js, lines 59-210)     *)
(*   - VowelClassifier    (src/module/utils/Smoother.js, lines 217-648)    *)
(*   - Smoother           (src/module/utils/Smoother.js, lines 6-52)       *)
(*   - TemporalFeatureExtractor (src/unnamed/part_007)                     *)
(*   - MouthTracker       (src/module/core/MouthTracker.js, lines 11-265)  *)
(*   - DataProcessor      (src/module/core/DataProcessor.js)               *)
(* Real numbers are fixed-point integers: metric values in units of 0.001, *)
(* scores, probabilities and confidences in units of 1/PScale.             *)
(***************************************************************************)
EXTENDS Integers, Sequences, FiniteSets, TLC

\* ------------------------------------------------------------------ bounds
\* options.duration, in units of the sample interval (default 3000/100).
Duration == 3
\* options.minSamples (default 10).
MinSamples == 2
\* Date.now() is followed up to this many sample intervals.
MaxTime == 4
\* Number of calibration sessions (timers) one run may create.
MaxSessions == 2

\* One unit of a score, probability or confidence is 1/PScale.
PScale == 10

\* options.historyLength of the classifier whose whole interface is exercised
HistoryCap == 2
\* Landmark coordinates are integers in 0..MaxCoord.
MaxCoord == 4
\* addFrame is followed for this many frames after construction or reset().
MaxFrames == 5
\* Number of trackingLoop invocations of one tracker that may be alive at once.
MaxLoops == 2
\* The tracker is followed for this many frames with a face after start().
MaxTracked == 2
\* options.historyLength || 7
HistoryLengthDefault == 7
\* options.smoothingAlpha, default 0.6, as a percentage
SmoothingAlphaPct == 60

\* Number.NaN: scores, probabilities and confidences are never negative, so a
\* negative number stands for it.
NaN == -1

\* JavaScript null / undefined, comparable with any record of the model.
Null == [null |-> TRUE]

\* The outcome of a getMetrics() call that raises.
Throws == [throws |-> TRUE]

VARIABLES
    \* CalibrationManager fields
    isCalibrating, samples, baseline,
    \* environment of the CalibrationManager: Date.now(), the interval timers
    \* created by startCalibration with the promise each one settles
    now, timers,
    \* observation of the CalibrationManager: the last operation, the sessions
    \* whose completion invoked onCalibrationComplete, and whether the manager
    \* has been stopped and not restarted since
    calEvent, completeCalls, idleSinceStop,
    \* VowelClassifier fields (baseline is vcBaseline here)
    vcBaseline, thresholds, calibrationProfiles, vowelHistory, probabilityEma,
    historyLength, onVowelDetected,
    \* observation of the VowelClassifier: the last call with its input and the
    \* gate it ended in, the vote of _smoothVowel before the transition penalty,
    \* the result returned and the results handed to onVowelDetected in the call
    vcCall, vote, result, callbacks,
    \* the sum of the entries of this.probabilityEma, NaN when they are NaN
    emaSum,
    \* ---- Smoother
    \* this.smoothingFactor, in percent
    smoothingFactor,
    \* this.previousValues: landmark key -> last emitted point
    previousValues,
    \* observation of the Smoother: the last call, its arguments and the value
    \* it returned, and whether reset() had discarded a value of the key that
    \* no smooth() call had replaced yet
    smEvent,
    \* the keys whose stored value the last reset() discarded and that no
    \* smooth() call has stored again
    discarded,
    \* ---- TemporalFeatureExtractor
    \* this.bufferSize
    bufferSize,
    \* this.history: frames {timestamp, metrics}, oldest first
    tfHistory,
    \* the frames addFrame has appended since construction or the last reset()
    arrivals,
    \* observation of the TemporalFeatureExtractor: the last call
    tfEvent,
    \* ---- MouthTracker
    \* this.isTracking
    isTracking,
    \* this.animationFrameId: [id |-> l] for the requestAnimationFrame request
    \* of tracking loop l, or null
    animationFrameId,
    \* the invocations of trackingLoop: "send" while awaiting send(), "raf"
    \* while waiting for their animation frame, "none" when returned
    loops,
    \* this.lastMetrics
    lastMetrics,
    \* this.lastNoFaceWarning: [at |-> time], or null
    lastNoFaceWarning,
    \* observation of the MouthTracker: the last call, the frame it processed
    \* and the objects handed to onDataUpdate during the call
    mtEvent,
    \* ---- DataProcessor (static functions)
    \* the last call: the function and its arguments
    dpCall,
    \* the MouthMetrics record it returned
    dpMetrics

calVars == <<isCalibrating, samples, baseline, now, timers, calEvent,
             completeCalls, idleSinceStop>>

vcVars == <<vcBaseline, thresholds, calibrationProfiles, vowelHistory,
            probabilityEma, historyLength, onVowelDetected,
            vcCall, vote, result, callbacks, emaSum>>

smVars == <<smoothingFactor, previousValues, smEvent, discarded>>

\* the state of the frame pipeline's components
tfVars == <<bufferSize, tfHistory, arrivals, tfEvent>>

mtVars == <<isTracking, animationFrameId, loops, lastMetrics, lastNoFaceWarning,
           mtEvent>>

dpVars == <<dpCall, dpMetrics>>

pipeVars == <<smVars, tfVars, mtVars, dpVars>>

vars == <<calVars, vcVars, pipeVars>>

\* --------------------------------------------------------- CalibrationManager
SessionIds == 1..MaxSessions

\* What getMetrics() may hand to the sampling callback: nothing, a record
\* without openness, a record without width, or a valid measurement (metric
\* values in units of 0.001).
CalMetrics ==
    { Null,
      [openness |-> 0,  width |-> 60, aspectRatio |-> 0, area |-> 0,
       upperLipThickness |-> 0, lowerLipThickness |-> 0],
      [openness |-> 20, width |-> 0,  aspectRatio |-> 0, area |-> 0,
       upperLipThickness |-> 0, lowerLipThickness |-> 0],
      [openness |-> 20, width |-> 60, aspectRatio |-> 3000, area |-> 0,
       upperLipThickness |-> 0, lowerLipThickness |-> 0] }

\* getMetrics() of a mouth that moves during the session: nothing, or one of
\* two valid measurements
MovingMetrics ==
    { Null,
      [openness |-> 20, width |-> 60, aspectRatio |-> 3000, area |-> 0,
       upperLipThickness |-> 0, lowerLipThickness |-> 0],
      [openness |-> 50, width |-> 45, aspectRatio |-> 901, area |-> 0,
       upperLipThickness |-> 0, lowerLipThickness |-> 0] }

\* getMetrics() returns one of CalMetrics or raises.
GetMetricsOutcomes == CalMetrics \cup {Throws}

\* baselines handed to setBaseline: one measured elsewhere, and null
CalBaselineInputs ==
    { Null,
      [openness |-> 10, width |-> 40, aspectRatio |-> 4000, area |-> 0,
       lipThickness |-> 0, opennessMax |-> 30, widthMax |-> 70,
       timestamp |-> 0] }

NoTimer == [state |-> "unused", endTime |-> 0, due |-> FALSE, promise |-> "none",
            stopped |-> FALSE, polledAfterStop |-> FALSE, firedAtEnd |-> FALSE]

\* JavaScript truthiness of a sampled metrics object (line 91).
ValidSample(m) == m # Null /\ m.openness # 0 /\ m.width # 0

MakeSample(m) ==
    [timestamp |-> now, openness |-> m.openness, width |-> m.width,
     aspectRatio |-> m.aspectRatio, area |-> m.area,
     upperLipThickness |-> m.upperLipThickness,
     lowerLipThickness |-> m.lowerLipThickness]

\* values.filter(v => v > 0) over a mapped sample list
Positive(seq) == SelectSeq(seq, LAMBDA v : v > 0)

SeqRange(seq) == { seq[i] : i \in 1..Len(seq) }

\* a minimum that takes the value sampled last
calculateLast(values) ==
    IF Len(values) > 0 THEN values[Len(values)] ELSE 0

calculateMin(values) ==
    IF Len(values) > 0
    THEN CHOOSE v \in SeqRange(values) : \A w \in SeqRange(values) : v <= w
    ELSE 0

calculateMax(values) ==
    IF Len(values) > 0
    THEN CHOOSE v \in SeqRange(values) : \A w \in SeqRange(values) : v >= w
    ELSE 0

RECURSIVE SeqSum(_)
SeqSum(seq) == IF seq = <<>> THEN 0 ELSE seq[1] + SeqSum(Tail(seq))

calculateAvg(values) ==
    IF Len(values) > 0 THEN SeqSum(values) \div Len(values) ELSE 0

_calculateBaseline(ss, t) ==
    IF Len(ss) = 0 THEN Null
    ELSE
      LET opennessValues == Positive([i \in 1..Len(ss) |-> ss[i].openness])
          widthValues == Positive([i \in 1..Len(ss) |-> ss[i].width])
          aspectRatioValues == Positive([i \in 1..Len(ss) |-> ss[i].aspectRatio])
          areaValues == Positive([i \in 1..Len(ss) |-> ss[i].area])
          lipThicknessValues ==
              Positive([i \in 1..Len(ss) |->
                          ss[i].upperLipThickness + ss[i].lowerLipThickness])
      IN [openness |-> calculateMin(opennessValues),
          width |-> calculateMin(widthValues),
          aspectRatio |-> calculateAvg(aspectRatioValues),
          area |-> calculateMin(areaValues),
          lipThickness |-> calculateMin(lipThicknessValues),
          opennessMax |-> calculateMax(opennessValues),
          widthMax |-> calculateMax(widthValues),
          timestamp |-> t]

\* The first session id no timer was created for yet (0 when all are used).
FreeSession ==
    IF \E s \in SessionIds : timers[s].state = "unused"
    THEN CHOOSE s \in SessionIds :
            /\ timers[s].state = "unused"
            /\ \A r \in SessionIds : timers[r].state = "unused" => s <= r
    ELSE 0

\* startCalibration with the check of isCalibrating left out.
startCalibrationUnguarded ==
    /\ FreeSession # 0
    /\ isCalibrating' = TRUE
    /\ samples' = <<>>
    /\ timers' = [timers EXCEPT ![FreeSession] =
                     [NoTimer EXCEPT !.state = "live",
                                     !.endTime = now + Duration,
                                     !.promise = "pending"]]
    /\ idleSinceStop' = FALSE
    /\ calEvent' = [op |-> "start", outcome |-> "started", session |-> FreeSession]
    /\ UNCHANGED <<baseline, now, completeCalls>>

\* startCalibration(getMetrics): throws (the async function's promise is
\* rejected) while a session is active; otherwise marks the manager as
\* calibrating, empties the samples and creates the interval timer.
startCalibration ==
    IF isCalibrating
    THEN /\ calEvent' = [op |-> "start", outcome |-> "rejected", session |-> 0]
         /\ UNCHANGED <<isCalibrating, samples, baseline, now, timers,
                        completeCalls, idleSinceStop>>
    ELSE /\ FreeSession # 0
         /\ isCalibrating' = TRUE
         /\ samples' = <<>>
         /\ timers' = [timers EXCEPT ![FreeSession] =
                          [NoTimer EXCEPT !.state = "live",
                                          !.endTime = now + Duration,
                                          !.promise = "pending"]]
         /\ idleSinceStop' = FALSE
         /\ calEvent' = [op |-> "start", outcome |-> "started", session |-> FreeSession]
         /\ UNCHANGED <<baseline, now, completeCalls>>

\* _completeCalibration(resolve, reject), called with the interval cleared.
\* ss is this.samples after the push of the current callback.
_completeCalibration(s, ss, tm) ==
    IF Len(ss) < MinSamples
    THEN /\ isCalibrating' = FALSE
         /\ timers' = [tm EXCEPT ![s].promise = "rejected"]
         /\ calEvent' = [op |-> "tick", outcome |-> "failed", session |-> s]
         /\ UNCHANGED <<baseline, completeCalls>>
    ELSE /\ baseline' = _calculateBaseline(ss, now)
         /\ isCalibrating' = FALSE
         /\ completeCalls' = completeCalls \cup {s}
         /\ timers' = [tm EXCEPT ![s].promise = "resolved"]
         /\ calEvent' = [op |-> "tick", outcome |-> "completed", session |-> s]

\* One run of the setInterval callback of session s, getMetrics() giving m.
sampleCallback(s, m) ==
    /\ timers[s].state = "live"
    /\ timers[s].due
    \* timers of one interval that are due together run in creation order
    /\ \A r \in SessionIds : r < s => ~(timers[r].state = "live" /\ timers[r].due)
    /\ LET fired == [timers EXCEPT
                        ![s].due = FALSE,
                        ![s].polledAfterStop = @ \/ timers[s].stopped,
                        ![s].firedAtEnd = @ \/ now >= timers[s].endTime]
       IN
       IF m = Throws
       THEN \* catch: clearInterval, isCalibrating = false, reject(error)
            /\ timers' = [fired EXCEPT ![s].state = "cleared",
                                       ![s].promise = "rejected"]
            /\ isCalibrating' = FALSE
            /\ calEvent' = [op |-> "tick", outcome |-> "threw", session |-> s]
            /\ UNCHANGED <<samples, baseline, completeCalls>>
       ELSE IF ~ValidSample(m)
       THEN \* early return: nothing is recorded and the end time is not looked at
            /\ timers' = fired
            /\ calEvent' = [op |-> "tick", outcome |-> "skipped", session |-> s]
            /\ UNCHANGED <<isCalibrating, samples, baseline, completeCalls>>
       ELSE /\ samples' = Append(samples, MakeSample(m))
            /\ IF now >= timers[s].endTime
               THEN _completeCalibration(s, samples',
                                         [fired EXCEPT ![s].state = "cleared"])
               ELSE /\ timers' = fired
                    /\ calEvent' = [op |-> "tick", outcome |-> "sampled", session |-> s]
                    /\ UNCHANGED <<isCalibrating, baseline, completeCalls>>
    /\ UNCHANGED <<now, idleSinceStop>>

\* a setBaseline that stores nothing
calSetBaselineIgnored(B) ==
    /\ calEvent' = [op |-> "setBaseline", outcome |-> "set", session |-> 0,
                    value |-> B]
    /\ UNCHANGED <<isCalibrating, samples, baseline, now, timers,
                   completeCalls, idleSinceStop>>

\* CalibrationManager.setBaseline(baseline)
calSetBaseline(B) ==
    /\ baseline' = B
    /\ calEvent' = [op |-> "setBaseline", outcome |-> "set", session |-> 0,
                    value |-> B]
    /\ UNCHANGED <<isCalibrating, samples, now, timers, completeCalls,
                   idleSinceStop>>

\* stopCalibration(): resets the two fields; the interval is left as it is.
stopCalibration ==
    /\ isCalibrating' = FALSE
    /\ samples' = <<>>
    /\ timers' = [s \in SessionIds |->
                    IF timers[s].state = "live"
                    THEN [timers[s] EXCEPT !.stopped = TRUE]
                    ELSE timers[s]]
    /\ idleSinceStop' = TRUE
    /\ calEvent' = [op |-> "stop", outcome |-> "stopped", session |-> 0]
    /\ UNCHANGED <<baseline, now, completeCalls>>

\* One sample interval passes: every live interval timer becomes due.  A due
\* callback runs before the clock moves on.
AdvanceTime ==
    /\ now < MaxTime
    /\ \A s \in SessionIds : ~(timers[s].state = "live" /\ timers[s].due)
    /\ now' = now + 1
    /\ timers' = [s \in SessionIds |->
                    IF timers[s].state = "live"
                    THEN [timers[s] EXCEPT !.due = TRUE]
                    ELSE timers[s]]
    /\ calEvent' = [op |-> "advance", outcome |-> "none", session |-> 0]
    /\ UNCHANGED <<isCalibrating, samples, baseline, completeCalls, idleSinceStop>>

CalInit ==
    /\ isCalibrating = FALSE
    /\ samples = <<>>
    /\ baseline = Null
    /\ now = 0
    /\ timers = [s \in SessionIds |-> NoTimer]
    /\ calEvent = [op |-> "init", outcome |-> "none", session |-> 0]
    /\ completeCalls = {}
    /\ idleSinceStop = FALSE

StartStep == startCalibration /\ UNCHANGED <<vcVars, pipeVars>>

StopStep == stopCalibration /\ UNCHANGED <<vcVars, pipeVars>>

TickStep ==
    /\ \E s \in SessionIds : \E m \in GetMetricsOutcomes : sampleCallback(s, m)
    /\ UNCHANGED <<vcVars, pipeVars>>

ClockStep == AdvanceTime /\ UNCHANGED <<vcVars, pipeVars>>

CalSetBaselineStep ==
    /\ \E B \in CalBaselineInputs : calSetBaseline(B)
    /\ UNCHANGED <<vcVars, pipeVars>>

CalNext ==
    \/ StartStep
    \/ StopStep
    \/ TickStep
    \/ ClockStep

\* a sampling callback with getMetrics() of a moving mouth, or raising
MovingTickStep ==
    /\ \E s \in SessionIds : \E m \in MovingMetrics \cup {Throws} :
          sampleCallback(s, m)
    /\ UNCHANGED <<vcVars, pipeVars>>

\* sessions that run to their end over a moving mouth, with baselines set
\* from outside
BaselineNext ==
    \/ StartStep
    \/ MovingTickStep
    \/ ClockStep
    \/ CalSetBaselineStep

\* ------------------------------------------------------------ VowelClassifier
\* Object.entries(scores) order of the five vowel classes.
Vowels == <<"a", "i", "u", "e", "o">>

VowelSet == {"a", "i", "u", "e", "o"}

\* keys of _smoothProbabilities and _getEmptyProbabilities
ProbKeys == VowelSet \cup {"closed"}

\* vowel: null of a result
NullVowel == "null"

\* ---- IEEE arithmetic on fixed-point numbers and NaN
IsNaN(x) == x = NaN

\* x || 0
OrZero(x) == IF IsNaN(x) THEN 0 ELSE x

\* x > y, false when either side is NaN
GT(x, y) == ~IsNaN(x) /\ ~IsNaN(y) /\ x > y

\* x <= y, false when either side is NaN
LE(x, y) == ~IsNaN(x) /\ ~IsNaN(y) /\ x <= y

\* x < y, false when either side is NaN
LT(x, y) == ~IsNaN(x) /\ ~IsNaN(y) /\ x < y

FAdd(x, y) == IF IsNaN(x) \/ IsNaN(y) THEN NaN ELSE x + y

\* x / y of two fixed-point numbers (y # 0)
FDiv(x, y) == IF IsNaN(x) \/ IsNaN(y) THEN NaN ELSE (x * PScale) \div y

\* obj[key] || 0, also for a key the object does not have
GetOrZero(obj, key) == IF key \in DOMAIN obj THEN OrZero(obj[key]) ELSE 0

\* this.thresholds of the constructor (lines 236-276), values in units of 0.001
DefaultThresholds ==
    [closed |-> [openness |-> 18, opennessRatio |-> 1400],
     vowels |->
       [a |-> [openness |-> [optimal |-> 110, sigma |-> 20, penaltyThreshold |-> 90],
               aspectRatio |-> [min |-> 1100, max |-> 1900, falloffRange |-> 1600],
               area |-> [max |-> 25]],
        i |-> [aspectRatio |-> [optimal |-> 6500, sigma |-> 1500, min |-> 4000],
               openness |-> [max |-> 40, penaltyThreshold |-> 50],
               width |-> [min |-> 80, range |-> 50],
               mouthCornerAngle |-> [max |-> 250],
               lipThicknessRatio |-> [optimal |-> 120, sigma |-> 60]],
        u |-> [width |-> [max |-> 50, penaltyThreshold |-> 60],
               circularity |-> [min |-> 450, penaltyThreshold |-> 350],
               openness |-> [max |-> 50, sigma |-> 20],
               aspectRatio |-> [min |-> 1000, max |-> 2400],
               lipProtrusion |-> [max |-> 12]],
        e |-> [aspectRatio |-> [optimal |-> 3000, sigma |-> 1000, penaltyThreshold |-> 2000],
               openness |-> [min |-> 30, optimal |-> 45, sigma |-> 15, max |-> 60],
               width |-> [min |-> 80, range |-> 50],
               mouthCornerAngle |-> [max |-> 280],
               lipThicknessGap |-> [optimal |-> 8, sigma |-> 8]],
        o |-> [circularity |-> [min |-> 450, penaltyThreshold |-> 380],
               width |-> [optimal |-> 70, sigma |-> 20],
               lipProtrusion |-> [max |-> 15],
               thicknessRatio |-> [optimal |-> 4000, sigma |-> 1500],
               openness |-> [optimal |-> 55, sigma |-> 20]]]]

\* The feature configurations a _scoreForX method dereferences
\* (config.<feature>.<parameter>): a missing one raises a TypeError.
RequiredFeatures ==
    [a |-> {"openness", "aspectRatio", "area"},
     i |-> {"aspectRatio", "openness", "width", "mouthCornerAngle", "lipThicknessRatio"},
     u |-> {"width", "circularity", "openness", "aspectRatio"},
     e |-> {"aspectRatio", "openness", "width", "mouthCornerAngle", "lipThicknessGap"},
     o |-> {"circularity", "thicknessRatio", "openness", "width"}]

\* _calculateScores raises when this.thresholds.vowels lacks a vowel's
\* configuration or one of its features.
ScoringThrows(th) ==
    \/ "vowels" \notin DOMAIN th
    \/ \E v \in VowelSet :
          \/ v \notin DOMAIN th.vowels
          \/ \E f \in RequiredFeatures[v] : f \notin DOMAIN th.vowels[v]

\* an input gate that only asks for openness
_hasOpenness(metrics) ==
    /\ metrics # Null
    /\ "openness" \in DOMAIN metrics

\* _hasRequiredMetrics: typeof NaN is 'number'; a missing field is not.
_hasRequiredMetrics(metrics) ==
    /\ metrics # Null
    /\ {"openness", "width", "aspectRatio"} \subseteq DOMAIN metrics

\* const { upperLipThickness = 0, lowerLipThickness = 0, width = 0 } = metrics
FieldOr0(metrics, f) == IF f \in DOMAIN metrics THEN metrics[f] ELSE 0

\* a closed test that only compares against the baseline
_isMouthClosedByBaseline(metrics, bl, th) ==
    /\ bl # Null
    /\ LE(metrics.openness * 1000, bl.openness * 1400)

_isMouthClosed(metrics, bl, th) ==
    LET openness == metrics.openness
        width == FieldOr0(metrics, "width")
        thicknessSum == FieldOr0(metrics, "upperLipThickness")
                        + FieldOr0(metrics, "lowerLipThickness")
        \* thicknessRatio > 0.25, with thicknessRatio = thicknessSum / width
        thickLips == GT(width, 0) /\ thicknessSum * 100 > 25 * width
        closedCfg == IF "closed" \in DOMAIN th THEN th.closed ELSE <<>>
        opennessRatio == IF "opennessRatio" \in DOMAIN closedCfg
                         THEN closedCfg.opennessRatio ELSE 1400
        closedOpennessThreshold == IF "openness" \in DOMAIN closedCfg
                                   THEN closedCfg.openness ELSE 18
    IN IF LE(openness, 18) THEN TRUE
       ELSE IF LE(openness, 28) /\ thickLips THEN TRUE
       ELSE IF bl # Null
       THEN LET baselineOpenness == IF bl.openness = 0 THEN 10 ELSE bl.openness
            IN ~IsNaN(openness) /\ openness * 1000 <= baselineOpenness * opennessRatio
       ELSE LE(openness, closedOpennessThreshold)

\* one bar for every openness
_getMinScoreThresholdFlat(metrics) == 28

\* metrics.openness < 0.04 ? 0.45 : 0.28, as a percentage
_getMinScoreThreshold(metrics) == IF LT(metrics.openness, 40) THEN 45 ELSE 28

\* maxScore < minScoreThreshold; top.vowel = null stands for maxScore = -Infinity
BelowMinScore(top, thresholdPct) ==
    top.vowel = NullVowel \/ top.maxScore * 100 < thresholdPct * PScale

RECURSIVE SelectTopFrom(_, _, _)
SelectTopFrom(scores, i, acc) ==
    IF i > Len(Vowels) THEN acc
    ELSE LET v == Vowels[i]
             better == IF acc.vowel = NullVowel
                       THEN ~IsNaN(scores[v])
                       ELSE GT(scores[v], acc.maxScore)
         IN SelectTopFrom(scores, i + 1,
                          IF better THEN [vowel |-> v, maxScore |-> scores[v]] ELSE acc)

_selectTopVowel(scores) ==
    SelectTopFrom(scores, 1, [vowel |-> NullVowel, maxScore |-> 0])

RECURSIVE TotalFrom(_, _)
TotalFrom(scores, i) ==
    IF i > Len(Vowels) THEN 0 ELSE FAdd(scores[Vowels[i]], TotalFrom(scores, i + 1))

\* Object.values(scores).reduce((sum, score) => sum + score, 0)
TotalScore(scores) == TotalFrom(scores, 1)

_getEmptyProbabilities == [k \in ProbKeys |-> 0]

_calculateProbabilities(scores, totalScore) ==
    IF totalScore = 0 THEN _getEmptyProbabilities
    ELSE [v \in VowelSet |-> FDiv(scores[v], totalScore)]

\* the probabilities of the call alone, whatever was stored
_smoothProbabilitiesFresh(ema, probabilities) == probabilities

\* the vector _smoothProbabilities returns; ema is this.probabilityEma
_smoothProbabilities(ema, probabilities) ==
    IF ema = Null THEN probabilities
    ELSE [key \in ProbKeys |->
            (GetOrZero(ema, key) * SmoothingAlphaPct
             + GetOrZero(probabilities, key) * (100 - SmoothingAlphaPct)) \div 100]

\* the sum of the vector _calculateProbabilities returns: every entry is
\* score / totalScore, so the entries are all NaN when totalScore is NaN and
\* sum to totalScore / totalScore otherwise
ProbabilitySum(totalScore) ==
    IF totalScore = 0 THEN 0 ELSE FDiv(totalScore, totalScore)

\* the sum of the vector _smoothProbabilities returns, from the sums of the
\* stored and the new vector: sum over the keys of
\* (prev || 0) * alpha + (curr || 0) * (1 - alpha)
SmoothedSum(ema, prevSum, currSum) ==
    IF ema = Null THEN currSum
    ELSE (OrZero(prevSum) * SmoothingAlphaPct
          + OrZero(currSum) * (100 - SmoothingAlphaPct)) \div 100

_transitionPenalty(temporalFeatures) ==
    IF temporalFeatures = Null THEN 100
    ELSE LET Abs(x) == IF x < 0 THEN 0 - x ELSE x
             velocitySum == Abs(temporalFeatures.openness.velocity)
                            + Abs(temporalFeatures.width.velocity)
             accSum == Abs(temporalFeatures.openness.acceleration)
                       + Abs(temporalFeatures.width.acceleration)
         IN IF velocitySum > 350 \/ accSum > 700 THEN 70
            ELSE IF velocitySum > 180 \/ accSum > 350 THEN 85
            ELSE 100

\* a push that shifts one entry too late
PushHistoryOneOver(history, vowel, confidence) ==
    LET pushed == Append(history, [vowel |-> vowel, confidence |-> confidence])
    IN IF Len(pushed) > historyLength + 1 THEN Tail(pushed) ELSE pushed

\* this.vowelHistory after the push and the shift
PushHistory(history, vowel, confidence) ==
    LET pushed == Append(history, [vowel |-> vowel, confidence |-> confidence])
    IN IF Len(pushed) > historyLength THEN Tail(pushed) ELSE pushed

\* counts[v]: the summed confidence of v's entries among history[i..]
RECURSIVE CountFrom(_, _, _)
CountFrom(history, v, i) ==
    IF i > Len(history) THEN 0
    ELSE (IF history[i].vowel = v THEN OrZero(history[i].confidence) ELSE 0)
         + CountFrom(history, v, i + 1)

CountOf(history, v) == CountFrom(history, v, 1)

\* Object.entries(counts).forEach from the i-th history entry on: a vowel is
\* visited at its first entry, so the keys come in insertion order
RECURSIVE MajorityFrom(_, _, _)
MajorityFrom(history, i, acc) ==
    IF i > Len(history) THEN acc
    ELSE LET key == history[i].vowel
             first == \A j \in 1..(i - 1) : history[j].vowel # key
             count == CountOf(history, key)
         IN MajorityFrom(history, i + 1,
                         IF first /\ count > acc.majorityCount
                         THEN [majority |-> key, majorityCount |-> count]
                         ELSE acc)

\* sum of item.confidence over the entries of v among history[i..]
RECURSIVE ConfidenceSumFrom(_, _, _)
ConfidenceSumFrom(history, v, i) ==
    IF i > Len(history) THEN 0
    ELSE (IF history[i].vowel = v THEN history[i].confidence ELSE 0)
         + ConfidenceSumFrom(history, v, i + 1)

\* sum of the confidences of the majority's entries / safeCount
AvgConfidence(history, m) ==
    LET safeCount == IF m.majorityCount > 0 THEN m.majorityCount ELSE PScale
    IN FDiv(ConfidenceSumFrom(history, m.majority, 1), safeCount)

\* a vote that reports the vowel of the current call whatever the history holds
VoteOfCurrentCall(history, vowel) ==
    [vowel |-> vowel,
     confidence |-> AvgConfidence(history, [majority |-> vowel,
                                            majorityCount |-> CountOf(history, vowel)])]

\* _smoothVowel on the history after the push: the vote before the penalty
Vote(history, vowel) ==
    LET m == MajorityFrom(history, 1, [majority |-> vowel, majorityCount |-> 0])
    IN [vowel |-> m.majority, confidence |-> AvgConfidence(history, m)]

\* a gate that lets every vote through
_applyNoConfidenceGate(smoothed) ==
    [vowel |-> smoothed.vowel, confidence |-> smoothed.confidence]

_applyConfidenceGate(smoothed) ==
    LET isConfident == 2 * smoothed.confidence >= PScale
    IN [vowel |-> IF isConfident THEN smoothed.vowel ELSE NullVowel,
        confidence |-> IF isConfident THEN smoothed.confidence ELSE 0]

\* the result object: vowel, confidence, probabilities and whether metrics is set
_createResult(vowel, confidence, probabilities) ==
    [vowel |-> vowel, confidence |-> confidence,
     probabilities |-> probabilities, metrics |-> TRUE]

_createEmptyResult ==
    [vowel |-> NullVowel, confidence |-> 0,
     probabilities |-> _getEmptyProbabilities, metrics |-> FALSE]

\* onVowelDetected(result), when configured
Callbacks(r) == IF onVowelDetected THEN <<r>> ELSE <<>>

\* ---- inputs of the VowelClassifier
\* metrics objects handed to classify (values in units of 0.001) with the
\* scores _calculateScores gives them: absent, nearly shut without width, at
\* the closed threshold, nearly shut with width = aspectRatio = NaN, small
\* opening with thick lips, small opening with thin lips, an open 'a' shape, a
\* wide 'i' shape, and the last two with width = NaN.
GateInputs ==
    { [metrics |-> Null,
       scores |-> [v \in VowelSet |-> 0]],
      [metrics |-> [openness |-> 10, aspectRatio |-> 1500],
       scores |-> [v \in VowelSet |-> 0]],
      [metrics |-> [openness |-> 10, width |-> NaN, aspectRatio |-> NaN],
       scores |-> [v \in VowelSet |-> 0]],
      [metrics |-> [openness |-> 18, width |-> 60, aspectRatio |-> 3333],
       scores |-> [v \in VowelSet |-> 0]],
      [metrics |-> [openness |-> 25, width |-> 80, aspectRatio |-> 3200,
                    upperLipThickness |-> 12, lowerLipThickness |-> 12],
       scores |-> [v \in VowelSet |-> PScale \div 10]],
      [metrics |-> [openness |-> 25, width |-> 80, aspectRatio |-> 3200],
       scores |-> [v \in VowelSet |-> PScale \div 10]] }

\* metrics objects that pass the three gates under the default thresholds
VoteInputs ==
    { [metrics |-> [openness |-> 110, width |-> 165, aspectRatio |-> 1500],
       scores |-> [a |-> PScale, i |-> PScale \div 10, u |-> 0,
                   e |-> PScale \div 5, o |-> 0]],
      [metrics |-> [openness |-> 45, width |-> 290, aspectRatio |-> 6444],
       scores |-> [a |-> 0, i |-> (9 * PScale) \div 10, u |-> 0,
                   e |-> (2 * PScale) \div 3, o |-> 0]],
      [metrics |-> [openness |-> 110, width |-> NaN, aspectRatio |-> 1500],
       scores |-> [a |-> PScale, i |-> 0, u |-> NaN,
                   e |-> PScale \div 10, o |-> NaN]],
      [metrics |-> [openness |-> 45, width |-> NaN, aspectRatio |-> 6444],
       scores |-> [a |-> 0, i |-> (6 * PScale) \div 10, u |-> NaN,
                   e |-> PScale \div 2, o |-> NaN]] }

ScoredMetrics == GateInputs \cup VoteInputs

\* temporalFeatures handed to classify: none, a moderate and a fast transition
TemporalInputs ==
    { Null,
      [openness |-> [velocity |-> 0 - 150, acceleration |-> 0],
       width |-> [velocity |-> 50, acceleration |-> 0]],
      [openness |-> [velocity |-> 300, acceleration |-> 0],
       width |-> [velocity |-> 100, acceleration |-> 800]] }

\* baselines handed to setBaseline
BaselineInputs == { Null, [openness |-> 20] }

\* objects handed to setThresholds: a partial override of one vowel and a
\* wider closed threshold
ThresholdInputs ==
    { [vowels |-> [a |-> [openness |-> [optimal |-> 120, sigma |-> 20,
                                        penaltyThreshold |-> 90]]]],
      [closed |-> [openness |-> 30]] }

\* classify(metrics, temporalFeatures); scores is what _calculateScores(metrics)
\* returns when it does not raise.  stage names the return statement reached.
classify(metrics, scores, temporalFeatures) ==
    IF ~_hasRequiredMetrics(metrics)
    THEN /\ vcCall' = [op |-> "classify", stage |-> "input", metrics |-> metrics]
         /\ result' = _createEmptyResult
         /\ callbacks' = <<>>
         /\ vote' = Null
         /\ UNCHANGED <<vowelHistory, probabilityEma, emaSum>>
    ELSE IF _isMouthClosed(metrics, vcBaseline, thresholds)
    THEN /\ vcCall' = [op |-> "classify", stage |-> "closed", metrics |-> metrics]
         /\ result' = _createResult("closed", PScale,
                          [k \in ProbKeys |-> IF k = "closed" THEN PScale ELSE 0])
         /\ callbacks' = Callbacks(result')
         /\ vote' = Null
         /\ UNCHANGED <<vowelHistory, probabilityEma, emaSum>>
    ELSE IF ScoringThrows(thresholds)
    THEN /\ vcCall' = [op |-> "classify", stage |-> "threw", metrics |-> metrics]
         /\ result' = Null
         /\ callbacks' = <<>>
         /\ vote' = Null
         /\ UNCHANGED <<vowelHistory, probabilityEma, emaSum>>
    ELSE LET top == _selectTopVowel(scores) IN
    IF BelowMinScore(top, _getMinScoreThreshold(metrics))
    THEN /\ vcCall' = [op |-> "classify", stage |-> "minScore", metrics |-> metrics]
         /\ result' = _createEmptyResult
         /\ callbacks' = <<>>
         /\ vote' = Null
         /\ UNCHANGED <<vowelHistory, probabilityEma, emaSum>>
    ELSE \* _smoothProbabilities stores the vector it returns
         /\ probabilityEma' =
               _smoothProbabilities(probabilityEma,
                   _calculateProbabilities(scores, TotalScore(scores)))
         /\ emaSum' = SmoothedSum(probabilityEma, emaSum,
                                  ProbabilitySum(TotalScore(scores)))
         \* _smoothVowel(topVowel, smoothedProbabilities[topVowel] || 0, ...)
         /\ vowelHistory' = PushHistory(vowelHistory, top.vowel,
                                        GetOrZero(probabilityEma', top.vowel))
         /\ vote' = Vote(vowelHistory', top.vowel)
         /\ LET smoothed == [vowel |-> vote'.vowel,
                             confidence |->
                                 (vote'.confidence
                                  * _transitionPenalty(temporalFeatures)) \div 100]
                gated == _applyConfidenceGate(smoothed)
            IN result' = _createResult(gated.vowel, gated.confidence, probabilityEma')
         /\ callbacks' = Callbacks(result')
         /\ vcCall' = [op |-> "classify", stage |-> "vote", metrics |-> metrics]

\* the observation left by a call that returns nothing
NoResult(op) ==
    /\ vcCall' = [op |-> op, stage |-> "none", metrics |-> Null]
    /\ result' = Null
    /\ callbacks' = <<>>
    /\ vote' = Null

\* setBaseline(baseline)
setBaseline(b) ==
    /\ vcBaseline' = b
    /\ NoResult("setBaseline")

\* setThresholds(thresholds): object spread, the argument's keys replace the
\* current ones
setThresholds(t) ==
    /\ calibrationProfiles' =
          IF "calibrationProfiles" \in DOMAIN t
          THEN t.calibrationProfiles @@ calibrationProfiles
          ELSE calibrationProfiles
    /\ thresholds' = t @@ thresholds
    /\ NoResult("setThresholds")

\* new VowelClassifier({ historyLength: h, onVowelDetected: callback })
VcInit(h) ==
    /\ vcBaseline = Null
    /\ thresholds = DefaultThresholds
    /\ calibrationProfiles = <<>>
    /\ vowelHistory = <<>>
    /\ probabilityEma = Null
    /\ emaSum = 0
    /\ historyLength = h
    /\ onVowelDetected = TRUE
    /\ vcCall = [op |-> "init", stage |-> "none", metrics |-> Null]
    /\ result = Null
    /\ callbacks = <<>>
    /\ vote = Null

ClassifyStep ==
    /\ \E in \in ScoredMetrics : \E tf \in TemporalInputs :
          classify(in.metrics, in.scores, tf)
    /\ UNCHANGED <<vcBaseline, thresholds, calibrationProfiles, historyLength,
                   onVowelDetected, calVars, pipeVars>>

SetBaselineStep ==
    /\ \E b \in BaselineInputs : setBaseline(b)
    /\ UNCHANGED <<thresholds, calibrationProfiles, vowelHistory, probabilityEma,
                   emaSum, historyLength, onVowelDetected, calVars, pipeVars>>

SetThresholdsStep ==
    /\ \E t \in ThresholdInputs : setThresholds(t)
    /\ UNCHANGED <<vcBaseline, vowelHistory, probabilityEma, emaSum,
                   historyLength, onVowelDetected, calVars, pipeVars>>

VcNext ==
    \/ ClassifyStep
    \/ SetBaselineStep
    \/ SetThresholdsStep

\* classify calls that reach the vote, without temporal features
VoteStep ==
    /\ \E in \in VoteInputs : classify(in.metrics, in.scores, Null)
    /\ UNCHANGED <<vcBaseline, thresholds, calibrationProfiles, historyLength,
                   onVowelDetected, calVars, pipeVars>>

VoteNext == VoteStep

\* metrics objects that are not closed under the default thresholds, with a
\* best score on either side of each bar: a narrow opening whose 'i' score is
\* 0.3 and one whose 'i' score is 0.5, a wider opening whose 'e' score is 0.3
\* and one whose 'e' score is 0.2
MinScoreInputs ==
    { [metrics |-> [openness |-> 30, width |-> 150, aspectRatio |-> 5000],
       scores |-> [a |-> 0, i |-> (3 * PScale + 9) \div 10, u |-> PScale \div 10,
                   e |-> 0, o |-> 0]],
      [metrics |-> [openness |-> 30, width |-> 210, aspectRatio |-> 7000],
       scores |-> [a |-> 0, i |-> PScale \div 2, u |-> 0,
                   e |-> PScale \div 10, o |-> 0]],
      [metrics |-> [openness |-> 50, width |-> 100, aspectRatio |-> 2000],
       scores |-> [a |-> PScale \div 10, i |-> 0, u |-> 0,
                   e |-> (3 * PScale + 9) \div 10, o |-> 0]],
      [metrics |-> [openness |-> 50, width |-> 60, aspectRatio |-> 1200],
       scores |-> [a |-> PScale \div 10, i |-> 0, u |-> 0,
                   e |-> PScale \div 5, o |-> 0]] }

\* classify calls that reach the minimum-score comparison
MinScoreStep ==
    /\ \E in \in MinScoreInputs : \E tf \in TemporalInputs :
          classify(in.metrics, in.scores, tf)
    /\ UNCHANGED <<vcBaseline, thresholds, calibrationProfiles, historyLength,
                   onVowelDetected, calVars, pipeVars>>

MinScoreNext == MinScoreStep

\* classify calls that end in each of the three gates or pass them all
GatesStep ==
    /\ \E in \in GateInputs \cup MinScoreInputs : \E tf \in TemporalInputs :
          classify(in.metrics, in.scores, tf)
    /\ UNCHANGED <<vcBaseline, thresholds, calibrationProfiles, historyLength,
                   onVowelDetected, calVars, pipeVars>>

GatesNext == GatesStep

\* -------------------------------------------------------------------- Smoother
\* new Smoother(smoothingFactor = 0.5), as a percentage
SmoothingFactorDefault == 50

\* landmark keys handed to smooth: names of structureMouthLandmarks
SmootherKeys == {"topOuter", "bottomOuter"}

\* points with a numeric x: the origin, and a point without z
NumericPoints ==
    { [x |-> 0, y |-> 0, z |-> 0],
      [x |-> MaxCoord, y |-> MaxCoord \div 2] }

\* values handed to smooth: numeric points, nothing, and an object without x
SmoothInputs == NumericPoints \cup { Null, [y |-> 1, z |-> 1] }

\* factors handed to setSmoothingFactor, in percent
FactorInputs == {0 - 50, 0, 50, 150}

\* !newValue || typeof newValue.x !== 'number' does not hold
IsNumericPoint(newValue) == newValue # Null /\ "x" \in DOMAIN newValue

\* prev * this.smoothingFactor + next * (1 - this.smoothingFactor)
Ema(prev, next, factor) == (prev * factor + next * (100 - factor)) \div 100

\* a smooth that keeps one stored value for all keys
SmoothOutcomeOneSlot(pv, factor, key, newValue) ==
    IF ~IsNumericPoint(newValue)
    THEN [result |-> newValue, previousValues |-> pv]
    ELSE IF pv = <<>>
    THEN [result |-> newValue, previousValues |-> [k \in {key} |-> newValue]]
    ELSE LET slot == CHOOSE k \in DOMAIN pv : TRUE
             smoothed == [x |-> Ema(pv[slot].x, newValue.x, factor),
                          y |-> Ema(pv[slot].y, newValue.y, factor),
                          z |-> Ema(FieldOr0(pv[slot], "z"),
                                    FieldOr0(newValue, "z"), factor)]
         IN [result |-> smoothed,
             previousValues |-> [pv EXCEPT ![slot] = smoothed]]

\* a smooth that stores the raw input instead of the value it returns
SmoothOutcomeStoresInput(pv, factor, key, newValue) ==
    IF ~IsNumericPoint(newValue)
    THEN [result |-> newValue, previousValues |-> pv]
    ELSE IF key \notin DOMAIN pv
    THEN [result |-> newValue,
          previousValues |-> [k \in DOMAIN pv \cup {key} |->
                                 IF k = key THEN newValue ELSE pv[k]]]
    ELSE LET prev == pv[key]
             smoothed == [x |-> Ema(prev.x, newValue.x, factor),
                          y |-> Ema(prev.y, newValue.y, factor),
                          z |-> Ema(FieldOr0(prev, "z"), FieldOr0(newValue, "z"),
                                    factor)]
         IN [result |-> smoothed,
             previousValues |-> [pv EXCEPT ![key] = newValue]]

\* smooth(key, newValue) on the stored values pv: the value returned and the
\* stored values afterwards
SmoothOutcome(pv, factor, key, newValue) ==
    IF ~IsNumericPoint(newValue)
    THEN [result |-> newValue, previousValues |-> pv]
    ELSE IF key \notin DOMAIN pv
    THEN [result |-> newValue,
          previousValues |-> [k \in DOMAIN pv \cup {key} |->
                                 IF k = key THEN newValue ELSE pv[k]]]
    ELSE LET prev == pv[key]
             smoothed == [x |-> Ema(prev.x, newValue.x, factor),
                          y |-> Ema(prev.y, newValue.y, factor),
                          z |-> Ema(FieldOr0(prev, "z"), FieldOr0(newValue, "z"),
                                    factor)]
         IN [result |-> smoothed,
             previousValues |-> [pv EXCEPT ![key] = smoothed]]

\* Smoother.smooth(key, newValue)
smooth(key, newValue) ==
    LET out == SmoothOutcome(previousValues, smoothingFactor, key, newValue)
    IN /\ previousValues' = out.previousValues
       /\ smEvent' = [op |-> "smooth", key |-> key, value |-> newValue,
                      result |-> out.result, afterReset |-> key \in discarded]
       /\ discarded' = IF IsNumericPoint(newValue) THEN discarded \ {key}
                       ELSE discarded
       /\ UNCHANGED smoothingFactor

\* a reset that keeps the stored values
ResetKeepsValues(pv) == pv

\* the stored values after reset()
ResetValues(pv) == <<>>

\* Smoother.reset()
reset ==
    /\ previousValues' = ResetValues(previousValues)
    /\ discarded' = DOMAIN previousValues
    /\ smEvent' = [op |-> "reset", key |-> "", value |-> Null, result |-> Null,
                   afterReset |-> FALSE]
    /\ UNCHANGED smoothingFactor

\* Math.max(0, Math.min(1, factor))
ClampFactor(factor) ==
    LET capped == IF factor < 100 THEN factor ELSE 100
    IN IF capped > 0 THEN capped ELSE 0

\* Smoother.setSmoothingFactor(factor)
setSmoothingFactor(factor) ==
    /\ smoothingFactor' = ClampFactor(factor)
    /\ smEvent' = [op |-> "setSmoothingFactor", key |-> "", value |-> Null,
                   result |-> Null, afterReset |-> FALSE]
    /\ UNCHANGED <<previousValues, discarded>>

\* new Smoother()
SmInit ==
    /\ smoothingFactor = SmoothingFactorDefault
    /\ previousValues = <<>>
    /\ smEvent = [op |-> "init", key |-> "", value |-> Null, result |-> Null,
                  afterReset |-> FALSE]
    /\ discarded = {}

SmoothStep ==
    /\ \E key \in SmootherKeys : \E newValue \in SmoothInputs :
          smooth(key, newValue)
    /\ UNCHANGED <<calVars, vcVars, tfVars, mtVars, dpVars>>

ResetStep == reset /\ UNCHANGED <<calVars, vcVars, tfVars, mtVars, dpVars>>

SetFactorStep ==
    /\ \E factor \in FactorInputs : setSmoothingFactor(factor)
    /\ UNCHANGED <<calVars, vcVars, tfVars, mtVars, dpVars>>

SmNext ==
    \/ SmoothStep
    \/ ResetStep
    \/ SetFactorStep

\* ---------------------------------------------------- TemporalFeatureExtractor
\* options.bufferSize || 30
BufferSizeDefault == 30

\* Math.max(1, ...) of setBufferSize
BufferSizeMin == 1

\* Math.min(size, 120) of setBufferSize
BufferSizeMax == 120

\* options.bufferSize handed to the constructor: absent, zero, a small size,
\* a size above 120 and a negative size
BufferSizeOptions == {Null, [bufferSize |-> 0], [bufferSize |-> 2],
                      [bufferSize |-> 121], [bufferSize |-> 0 - 1]}

\* sizes handed to setBufferSize
BufferSizeInputs == {0 - 5, 0, 1, 3, 121}

\* metrics handed to addFrame: nothing, and two measurements (in units of
\* 0.001) whose openness differs by 0.02 and whose width differs by 0.001
FrameMetrics == {Null, [openness |-> 100, width |-> 60],
                 [openness |-> 120, width |-> 61]}

\* the history after the push and the shift of addFrame
PushFrame(frames, frameData, size) ==
    LET pushed == Append(frames, frameData)
    IN IF Len(pushed) > size THEN Tail(pushed) ELSE pushed

\* TemporalFeatureExtractor.addFrame(metrics)
addFrame(metrics) ==
    IF metrics = Null
    THEN /\ tfEvent' = [op |-> "addFrame", added |-> FALSE]
         /\ UNCHANGED <<bufferSize, tfHistory, arrivals>>
    ELSE LET frameData == [timestamp |-> now, metrics |-> metrics]
         IN /\ tfHistory' = PushFrame(tfHistory, frameData, bufferSize)
            /\ arrivals' = Append(arrivals, frameData)
            /\ tfEvent' = [op |-> "addFrame", added |-> TRUE]
            /\ UNCHANGED bufferSize

\* while (this.history.length > this.bufferSize) this.history.shift()
RECURSIVE ShiftDownTo(_, _)
ShiftDownTo(frames, size) ==
    IF Len(frames) > size THEN ShiftDownTo(Tail(frames), size) ELSE frames

\* Math.max(1, Math.min(size, 120))
ClampBufferSize(size) ==
    LET capped == IF size < BufferSizeMax THEN size ELSE BufferSizeMax
    IN IF capped > BufferSizeMin THEN capped ELSE BufferSizeMin

\* TemporalFeatureExtractor.setBufferSize(size)
setBufferSize(size) ==
    /\ bufferSize' = ClampBufferSize(size)
    /\ tfHistory' = ShiftDownTo(tfHistory, bufferSize')
    /\ tfEvent' = [op |-> "setBufferSize", added |-> FALSE]
    /\ UNCHANGED arrivals

\* TemporalFeatureExtractor.reset()
resetTemporal ==
    /\ tfHistory' = <<>>
    /\ arrivals' = <<>>
    /\ tfEvent' = [op |-> "reset", added |-> FALSE]
    /\ UNCHANGED bufferSize

\* options.bufferSize || 30
BufferSizeOf(options) ==
    IF options = Null \/ options.bufferSize = 0 THEN BufferSizeDefault
    ELSE options.bufferSize

\* new TemporalFeatureExtractor(options)
TfInit(options) ==
    /\ bufferSize = BufferSizeOf(options)
    /\ tfHistory = <<>>
    /\ arrivals = <<>>
    /\ tfEvent = [op |-> "init", added |-> FALSE]

\* a / b rounded towards zero, for b > 0
SignedDiv(a, b) == IF a >= 0 THEN a \div b ELSE 0 - ((0 - a) \div b)

\* _getFeatureValue(metrics, featureName) !== null, for a feature name
\* without a dot: the value is then metrics[featureName]
HasFeatureValue(metrics, featureName) ==
    metrics # Null /\ featureName \in DOMAIN metrics

\* a velocity taken over the whole buffer, oldest frame to newest
getVelocityOverBuffer(frames, featureName) ==
    IF Len(frames) < 2 THEN 0
    ELSE LET current == frames[Len(frames)]
             previous == frames[1]
             timeDelta == current.timestamp - previous.timestamp
         IN IF timeDelta = 0 THEN 0
            ELSE SignedDiv(10 * (current.metrics[featureName]
                                   - previous.metrics[featureName]), timeDelta)

\* TemporalFeatureExtractor.getVelocity(featureName), per second; the
\* timestamps are in units of 100 ms
getVelocity(frames, featureName) ==
    IF Len(frames) < 2 THEN 0
    ELSE LET current == frames[Len(frames)]
             previous == frames[Len(frames) - 1]
             timeDelta == current.timestamp - previous.timestamp
         IN IF \/ ~HasFeatureValue(current.metrics, featureName)
               \/ ~HasFeatureValue(previous.metrics, featureName)
            THEN 0
            ELSE IF timeDelta = 0 THEN 0
            ELSE SignedDiv(10 * (current.metrics[featureName]
                                   - previous.metrics[featureName]), timeDelta)

\* this.history.slice(-5)
RecentFrames(frames) ==
    SubSeq(frames, Len(frames) - 4, Len(frames))

\* the number of consecutive pairs of recentFrames whose difference is
\* > 0.001 (sign = 1) or < -0.001 (sign = -1)
RECURSIVE CountMoves(_, _, _, _)
CountMoves(recentFrames, featureName, sign, i) ==
    IF i < 2 THEN 0
    ELSE LET current == recentFrames[i].metrics
             previous == recentFrames[i - 1].metrics
             moved == /\ HasFeatureValue(current, featureName)
                      /\ HasFeatureValue(previous, featureName)
                      /\ sign * (current[featureName] - previous[featureName]) > 1
         IN (IF moved THEN 1 ELSE 0)
              + CountMoves(recentFrames, featureName, sign, i - 1)

\* increases > decreases * 1.5, decreases > increases * 1.5, else 'stable'
TrendLabel(increases, decreases) ==
    IF 2 * increases > 3 * decreases THEN "increasing"
    ELSE IF 2 * decreases > 3 * increases THEN "decreasing"
    ELSE "stable"

\* a trend read from the last four samples only
getTrendOfLastFour(frames, featureName) ==
    IF Len(frames) < 5 THEN "stable"
    ELSE LET recentFrames == SubSeq(frames, Len(frames) - 3, Len(frames))
         IN TrendLabel(CountMoves(recentFrames, featureName, 1, 4),
                       CountMoves(recentFrames, featureName, 0 - 1, 4))

\* TemporalFeatureExtractor.getTrend(featureName)
getTrend(frames, featureName) ==
    IF Len(frames) < 5 THEN "stable"
    ELSE LET recentFrames == RecentFrames(frames)
         IN TrendLabel(CountMoves(recentFrames, featureName, 1, 5),
                       CountMoves(recentFrames, featureName, 0 - 1, 5))

\* TemporalFeatureExtractor.getAllTemporalFeatures(): velocity and trend of
\* openness and width (acceleration, moving average and standard deviation
\* are not followed)
getAllTemporalFeatures(frames) ==
    IF Len(frames) = 0 THEN Null
    ELSE [f \in {"openness", "width"} |->
             [velocity |-> getVelocity(frames, f),
              trend |-> getTrend(frames, f)]]

GetFeaturesStep ==
    /\ tfEvent' = [op |-> "getAllTemporalFeatures", added |-> FALSE,
                   features |-> getAllTemporalFeatures(tfHistory)]
    /\ UNCHANGED <<bufferSize, tfHistory, arrivals>>
    /\ UNCHANGED <<calVars, vcVars, smVars, mtVars, dpVars>>

AddFrameStep ==
    /\ Len(arrivals) < MaxFrames
    /\ \E metrics \in FrameMetrics : addFrame(metrics)
    /\ UNCHANGED <<calVars, vcVars, smVars, mtVars, dpVars>>

SetBufferSizeStep ==
    /\ \E size \in BufferSizeInputs : setBufferSize(size)
    /\ UNCHANGED <<calVars, vcVars, smVars, mtVars, dpVars>>

ResetTemporalStep == resetTemporal /\ UNCHANGED <<calVars, vcVars, smVars, mtVars, dpVars>>

TfNext ==
    \/ AddFrameStep
    \/ SetBufferSizeStep
    \/ ResetTemporalStep

\* ---------------------------------------------------------------- MouthTracker
\* The tracker is constructed with the default options: it owns the Smoother
\* and the TemporalFeatureExtractor above.  Times are in units of 1000 ms.
\* The frame-rate counter (updateFPS and the fps field of the results) is not
\* followed: nothing else in the tracker reads it.

\* now - this.lastNoFaceWarning > 2000
NoFaceWarningInterval == 2

LoopIds == 1..MaxLoops

\* the CalibrationManager's variables other than the clock
calRest == <<isCalibrating, samples, baseline, timers, calEvent, completeCalls,
             idleSinceStop>>

\* observation of a step that is not a processResults call
NoDelivery == [op |-> "idle", frame |-> Null, delivered |-> <<>>]

\* keys of the object returned by getMouthLandmarks, in insertion order
LandmarkKeys == <<"leftEnd", "rightEnd", "topOuter", "bottomOuter">>

\* FaceMesh results with a face: the mouth at rest, and a mouth opened wider
\* whose lower lip is reported far off in depth.  No contour, extended or
\* face landmarks are reported with them.
FaceFrames ==
    { [leftEnd |-> [x |-> 0, y |-> 2, z |-> 0],
       rightEnd |-> [x |-> MaxCoord, y |-> 2, z |-> 0],
       topOuter |-> [x |-> 2, y |-> 0, z |-> 0],
       bottomOuter |-> [x |-> 2, y |-> 2, z |-> 0]],
      [leftEnd |-> [x |-> 0, y |-> 2, z |-> 0],
       rightEnd |-> [x |-> 2, y |-> 2, z |-> 0],
       topOuter |-> [x |-> 2, y |-> 0, z |-> 0],
       bottomOuter |-> [x |-> 2, y |-> MaxCoord, z |-> MaxCoord]] }

\* getMouthLandmarks(results): the landmarks, or null without a face
ResultFrames == FaceFrames \cup {Null}

\* Math.sqrt, to the integer below
ISqrt(v) == CHOOSE r \in 0..v : r * r <= v /\ (r + 1) * (r + 1) > v

\* DataProcessor.distance(point1, point2), in tenths of a coordinate unit
distance(point1, point2) ==
    LET dx == point2.x - point1.x
        dy == point2.y - point1.y
        dz == FieldOr0(point2, "z") - FieldOr0(point1, "z")
    IN ISqrt(100 * (dx * dx + dy * dy + dz * dz))

\* DataProcessor.calculateAllMetrics(smoothedLandmarks, null): the fields that
\* depend on the landmarks when no contour is reported
calculateAllMetrics(mouthLandmarks) ==
    [openness |-> distance(mouthLandmarks.topOuter, mouthLandmarks.bottomOuter),
     width |-> distance(mouthLandmarks.leftEnd, mouthLandmarks.rightEnd)]

\* DataProcessor.calculateChangeRate(current, previous), in percent
calculateChangeRate(current, previous) ==
    IF previous = 0 THEN 0
    ELSE LET d == 100 * (current - previous)
         IN IF d >= 0 THEN d \div previous ELSE 0 - ((0 - d) \div previous)

\* the forEach over Object.keys(mouthLandmarks) of processResults: the stored
\* values of the smoother after smoothing the first n landmarks
RECURSIVE SmoothedValues(_, _, _, _)
SmoothedValues(pv, factor, mouthLandmarks, n) ==
    IF n = 0 THEN pv
    ELSE SmoothOutcome(SmoothedValues(pv, factor, mouthLandmarks, n - 1), factor,
                       LandmarkKeys[n], mouthLandmarks[LandmarkKeys[n]]).previousValues

\* smoothedLandmarks of processResults
SmoothedLandmarks(pv, factor, mouthLandmarks) ==
    [i \in 1..Len(LandmarkKeys) |->
        SmoothOutcome(SmoothedValues(pv, factor, mouthLandmarks, i - 1), factor,
                      LandmarkKeys[i], mouthLandmarks[LandmarkKeys[i]]).result]

\* metrics.opennessRate and metrics.widthRate of processResults
WithRates(metrics, last) ==
    IF last # Null
    THEN [openness |-> metrics.openness, width |-> metrics.width,
          opennessRate |-> calculateChangeRate(metrics.openness, last.openness),
          widthRate |-> calculateChangeRate(metrics.width, last.width)]
    ELSE [openness |-> metrics.openness, width |-> metrics.width,
          opennessRate |-> 0, widthRate |-> 0]

\* a no-face notification sent for every frame without a face
NoFaceAlways(last) == TRUE

\* !this.lastNoFaceWarning || now - this.lastNoFaceWarning > 2000
\* (Date.now() is positive, so only null is falsy)
NoFaceDue(last) == last = Null \/ now - last.at > NoFaceWarningInterval

\* MouthTracker.processResults(results) for results without a face
processNoFace(op) ==
    /\ IF NoFaceDue(lastNoFaceWarning)
       THEN /\ lastNoFaceWarning' = [at |-> now]
            /\ mtEvent' = [op |-> op, frame |-> Null,
                           delivered |-> << [landmarks |-> Null,
                                             metrics |-> Null,
                                             confidence |-> 0,
                                             faceDetected |-> FALSE] >>]
       ELSE /\ mtEvent' = [op |-> op, frame |-> Null, delivered |-> <<>>]
            /\ UNCHANGED lastNoFaceWarning
    /\ UNCHANGED <<smVars, tfVars, lastMetrics>>

\* MouthTracker.processResults(results) for results with a face
processFace(op, mouthLandmarks) ==
    /\ lastNoFaceWarning' = Null
    /\ previousValues' = SmoothedValues(previousValues, smoothingFactor,
                                        mouthLandmarks, Len(LandmarkKeys))
    /\ LET smoothed == SmoothedLandmarks(previousValues, smoothingFactor,
                                         mouthLandmarks)
           last == Len(LandmarkKeys)
           smoothedLandmarks == [k \in DOMAIN mouthLandmarks |->
               smoothed[CHOOSE i \in 1..last : LandmarkKeys[i] = k]]
       IN /\ smEvent' = [op |-> "smooth", key |-> LandmarkKeys[last],
                         value |-> mouthLandmarks[LandmarkKeys[last]],
                         result |-> smoothed[last],
                         afterReset |-> LandmarkKeys[last] \in discarded]
          /\ lastMetrics' = WithRates(calculateAllMetrics(smoothedLandmarks),
                                      lastMetrics)
          /\ addFrame(lastMetrics')
          /\ mtEvent' = [op |-> op, frame |-> mouthLandmarks,
                         delivered |-> << [landmarks |-> smoothedLandmarks,
                                           metrics |-> lastMetrics',
                                           confidence |-> 1,
                                           timestamp |-> now,
                                           faceDetected |-> TRUE] >>]
    /\ discarded' = discarded \ DOMAIN mouthLandmarks
    /\ UNCHANGED smoothingFactor

\* MouthTracker.processResults(results)
processResults(op, results) ==
    IF results = Null THEN processNoFace(op) ELSE processFace(op, results)

\* a trackingLoop invocation that has not returned: awaiting send() or
\* waiting for its animation frame
Alive(l) == loops[l] \in {"send", "raf"}

\* the body of trackingLoop() after the isTracking test, run by loop l:
\* send() is awaited if the video has data, else the next animation frame is
\* requested at once
EnterLoop(ls, l, ready) ==
    IF ready
    THEN /\ loops' = [ls EXCEPT ![l] = "send"]
         /\ UNCHANGED animationFrameId
    ELSE /\ loops' = [ls EXCEPT ![l] = "raf"]
         /\ animationFrameId' = [id |-> l]

\* a start() that keeps this.lastMetrics
LastMetricsKept(last) == last

\* this.lastMetrics = null of start()
LastMetricsAtStart(last) == Null

\* MouthTracker.start()
start(ready) ==
    IF isTracking
    THEN /\ mtEvent' = NoDelivery
         /\ UNCHANGED <<smVars, tfVars, isTracking, animationFrameId, loops,
                        lastMetrics, lastNoFaceWarning>>
    ELSE /\ \E l \in LoopIds : ~Alive(l)
         /\ isTracking' = TRUE
         /\ reset
         /\ resetTemporal
         /\ lastMetrics' = LastMetricsAtStart(lastMetrics)
         /\ EnterLoop(loops, CHOOSE l \in LoopIds : ~Alive(l), ready)
         /\ mtEvent' = NoDelivery
         /\ UNCHANGED lastNoFaceWarning

\* cancelAnimationFrame(id): a pending request is dropped, one that has fired
\* is not affected
cancelAnimationFrame(ls, id) ==
    IF ls[id] = "raf" THEN [ls EXCEPT ![id] = "none"] ELSE ls

\* MouthTracker.stop()
stop ==
    /\ IF ~isTracking
       THEN UNCHANGED <<isTracking, animationFrameId, loops>>
       ELSE /\ isTracking' = FALSE
            /\ IF animationFrameId # Null
               THEN /\ loops' = cancelAnimationFrame(loops, animationFrameId.id)
                    /\ animationFrameId' = Null
               ELSE UNCHANGED <<animationFrameId, loops>>
    /\ mtEvent' = NoDelivery
    /\ UNCHANGED <<smVars, tfVars, lastMetrics, lastNoFaceWarning>>

\* send() of loop l resolves after FaceMesh has handed its results to
\* processResults; trackingLoop then requests the next animation frame
sendResolves(l, results) ==
    /\ loops[l] = "send"
    /\ processResults("processResults", results)
    /\ loops' = [loops EXCEPT ![l] = "raf"]
    /\ animationFrameId' = [id |-> l]
    /\ UNCHANGED isTracking

\* send() of loop l rejects: the error is logged and the next animation frame
\* is requested
sendRejects(l) ==
    /\ loops[l] = "send"
    /\ loops' = [loops EXCEPT ![l] = "raf"]
    /\ animationFrameId' = [id |-> l]
    /\ mtEvent' = NoDelivery
    /\ UNCHANGED <<smVars, tfVars, isTracking, lastMetrics, lastNoFaceWarning>>

\* the animation frame requested by loop l arrives: trackingLoop()
trackingLoop(l, ready) ==
    /\ loops[l] = "raf"
    /\ IF ~isTracking
       THEN /\ loops' = [loops EXCEPT ![l] = "none"]
            /\ UNCHANGED animationFrameId
       ELSE EnterLoop(loops, l, ready)
    /\ mtEvent' = NoDelivery
    /\ UNCHANGED <<smVars, tfVars, isTracking, lastMetrics, lastNoFaceWarning>>

\* Date.now() advances
AdvanceClock ==
    /\ now < MaxTime
    /\ now' = now + 1
    /\ mtEvent' = NoDelivery
    /\ UNCHANGED <<calRest, vcVars, smVars, tfVars, dpVars, isTracking,
                   animationFrameId, loops, lastMetrics, lastNoFaceWarning>>

\* new MouthTracker(videoElement, onDataUpdate)
MtInit ==
    /\ isTracking = FALSE
    /\ animationFrameId = Null
    /\ loops = [l \in LoopIds |-> "none"]
    /\ lastMetrics = Null
    /\ lastNoFaceWarning = Null
    /\ mtEvent = NoDelivery

TrackerStartStep ==
    /\ \E ready \in BOOLEAN : start(ready)
    /\ UNCHANGED <<calVars, vcVars, dpVars>>

TrackerStopStep == stop /\ UNCHANGED <<calVars, vcVars, dpVars>>

SendResolvesStep ==
    /\ \E l \in LoopIds : \E results \in ResultFrames :
          /\ results # Null => Len(arrivals) < MaxTracked
          /\ sendResolves(l, results)
    /\ UNCHANGED <<calVars, vcVars, dpVars>>

SendRejectsStep ==
    /\ \E l \in LoopIds : sendRejects(l)
    /\ UNCHANGED <<calVars, vcVars, dpVars>>

TrackingLoopStep ==
    /\ \E l \in LoopIds : \E ready \in BOOLEAN : trackingLoop(l, ready)
    /\ UNCHANGED <<calVars, vcVars, dpVars>>

\* the callback registered by initialize(): FaceMesh hands results to
\* processResults
OnResultsStep ==
    /\ \E results \in ResultFrames :
          /\ results # Null => Len(arrivals) < MaxTracked
          /\ processResults("processResults", results)
    /\ UNCHANGED <<isTracking, animationFrameId, loops>>
    /\ UNCHANGED <<calVars, vcVars, dpVars>>

\* the tracking loop of one tracker between start() and stop()
TrackerNext ==
    \/ TrackerStartStep
    \/ TrackerStopStep
    \/ SendResolvesStep
    \/ SendRejectsStep
    \/ TrackingLoopStep

\* the results callback of a tracker as time passes
FramesNext ==
    \/ OnResultsStep
    \/ AdvanceClock

\* frames arriving at a TemporalFeatureExtractor over time (the clock in
\* units of 100 ms) and their temporal features read
FeaturesNext ==
    \/ AddFrameStep
    \/ GetFeaturesStep
    \/ AdvanceClock

\* --------------------------------------------------------------- DataProcessor
\* Coordinates are integers in units of 0.01; distances, metrics and scales
\* are in units of 0.001.

\* mouth landmarks handed to the metric functions: the upper lip and the left
\* corner fixed, the lower lip and the right corner anywhere on the grid
MouthInputs ==
    { [leftEnd |-> [x |-> 0, y |-> 0, z |-> 0],
       rightEnd |-> [x |-> rx, y |-> 0, z |-> 0],
       topOuter |-> [x |-> 0, y |-> 0, z |-> 0],
       bottomOuter |-> [x |-> 0, y |-> by, z |-> 0]] :
         rx \in 0..MaxCoord, by \in 0..MaxCoord }

\* the anchors calculateMetricsFromContour reads from the contour landmarks
\* (averages of the outer lip points and the two corner points): no contour,
\* a contour with all of them, and a contour without corner points
ContourInputs ==
    { Null,
      [topOuterAvg |-> [x |-> 2, y |-> 0, z |-> 0],
       bottomOuterAvg |-> [x |-> 2, y |-> 3, z |-> 0],
       leftCorner |-> [x |-> 0, y |-> 1, z |-> 0],
       rightCorner |-> [x |-> 4, y |-> 1, z |-> 0]],
      [topOuterAvg |-> [x |-> 2, y |-> 0, z |-> 0],
       bottomOuterAvg |-> [x |-> 2, y |-> 1, z |-> 0],
       leftCorner |-> Null,
       rightCorner |-> Null] }

\* allFaceLandmarks: none, eyes 0.05 apart, eyes 0.2 apart
FaceInputs ==
    { Null,
      [leftEyeOuter |-> [x |-> 0, y |-> 0, z |-> 0],
       rightEyeOuter |-> [x |-> 5, y |-> 0, z |-> 0]],
      [leftEyeOuter |-> [x |-> 0, y |-> 0, z |-> 0],
       rightEyeOuter |-> [x |-> 20, y |-> 0, z |-> 0]] }

\* width / (openness + 0.0001)
AspectRatioOf(width, openness) == (10000 * width) \div (10 * openness + 1)

\* a || b for anchor points
PointOr(a, b) == IF a # Null THEN a ELSE b

\* DataProcessor.calculateMetricsFromContour(contourLandmarks, basicLandmarks)
\* for a contour that is present
calculateMetricsFromContour(contour, basicLandmarks) ==
    LET topOuterAvg == PointOr(contour.topOuterAvg, basicLandmarks.topOuter)
        bottomOuterAvg == PointOr(contour.bottomOuterAvg, basicLandmarks.bottomOuter)
        leftCorner == PointOr(contour.leftCorner, basicLandmarks.leftEnd)
        rightCorner == PointOr(contour.rightCorner, basicLandmarks.rightEnd)
        openness == distance(topOuterAvg, bottomOuterAvg)
        width == distance(leftCorner, rightCorner)
    IN [openness |-> openness, width |-> width,
        aspectRatio |-> AspectRatioOf(width, openness)]

\* DataProcessor.calculateAspectRatio(mouthLandmarks)
calculateAspectRatio(mouthLandmarks) ==
    AspectRatioOf(distance(mouthLandmarks.leftEnd, mouthLandmarks.rightEnd),
                  distance(mouthLandmarks.topOuter, mouthLandmarks.bottomOuter))

\* DataProcessor.calculateFaceScale(allFaceLandmarks)
calculateFaceScale(allFaceLandmarks) ==
    IF allFaceLandmarks = Null THEN 1000
    ELSE LET eyeDistance == distance(allFaceLandmarks.leftEyeOuter,
                                     allFaceLandmarks.rightEyeOuter)
         IN IF eyeDistance # 0 THEN eyeDistance ELSE 1000

\* DataProcessor._applyScaleNormalization(metrics, scale): openness and width
\* are divided by the scale, aspectRatio is copied
_applyScaleNormalization(metrics, scale) ==
    LET safeScale == IF scale > 0 THEN scale ELSE 1000
    IN [openness |-> (1000 * metrics.openness) \div safeScale,
        width |-> (1000 * metrics.width) \div safeScale,
        aspectRatio |-> metrics.aspectRatio,
        scale |-> safeScale]

\* DataProcessor.calculateAllMetrics(mouthLandmarks, contourLandmarks, null,
\* allFaceLandmarks, applyNormalization): the fields openness, width,
\* aspectRatio and scale
AllMetrics(mouthLandmarks, contour, allFaceLandmarks, applyNormalization) ==
    LET metrics ==
            IF contour # Null
            THEN calculateMetricsFromContour(contour, mouthLandmarks)
            ELSE [openness |-> distance(mouthLandmarks.topOuter,
                                        mouthLandmarks.bottomOuter),
                  width |-> distance(mouthLandmarks.leftEnd,
                                     mouthLandmarks.rightEnd),
                  aspectRatio |-> calculateAspectRatio(mouthLandmarks)]
        scale == calculateFaceScale(allFaceLandmarks)
    IN IF applyNormalization
       THEN _applyScaleNormalization(metrics, scale)
       ELSE [openness |-> metrics.openness, width |-> metrics.width,
             aspectRatio |-> metrics.aspectRatio, scale |-> scale]

\* DataProcessor.calculateMetricsFromDefaultLandmarks(mouthLandmarks,
\* contourLandmarks, null, allFaceLandmarks)
calculateMetricsFromDefaultLandmarks(mouthLandmarks, contour, allFaceLandmarks) ==
    LET baseMetrics == AllMetrics(mouthLandmarks, contour, allFaceLandmarks, FALSE)
    IN _applyScaleNormalization(baseMetrics, calculateFaceScale(allFaceLandmarks))

DpInit ==
    /\ dpCall = [op |-> "init"]
    /\ dpMetrics = Null

CalculateAllMetricsStep ==
    /\ \E ml \in MouthInputs : \E contour \in ContourInputs :
       \E face \in FaceInputs :
          /\ dpCall' = [op |-> "calculateAllMetrics", mouthLandmarks |-> ml,
                        contour |-> contour, allFaceLandmarks |-> face]
          /\ dpMetrics' = AllMetrics(ml, contour, face, TRUE)
    /\ UNCHANGED <<calVars, vcVars, smVars, tfVars, mtVars>>

CalculateFromDefaultStep ==
    /\ \E ml \in MouthInputs : \E contour \in ContourInputs :
       \E face \in FaceInputs :
          /\ dpCall' = [op |-> "calculateMetricsFromDefaultLandmarks",
                        mouthLandmarks |-> ml, contour |-> contour,
                        allFaceLandmarks |-> face]
          /\ dpMetrics' = calculateMetricsFromDefaultLandmarks(ml, contour, face)
    /\ UNCHANGED <<calVars, vcVars, smVars, tfVars, mtVars>>

DpNext ==
    \/ CalculateAllMetricsStep
    \/ CalculateFromDefaultStep

\* ------------------------------------------------ claims: CalibrationManager

\* C1: after stopCalibration() the stopped session's timer never polls
\* getMetrics again, the stopped session never completes (no baseline, no
\* onCalibrationComplete, no resolved promise), and the manager stays idle
\* (isCalibrating = false, samples empty) until the next startCalibration().
C1_StopCancelsSession ==
    /\ \A s \in SessionIds :
          timers[s].stopped =>
             /\ ~timers[s].polledAfterStop
             /\ timers[s].promise # "resolved"
             /\ s \notin completeCalls
    /\ idleSinceStop => (~isCalibrating /\ samples = <<>>)

\* C2: once the sampling callback of a session has run at or after the
\* session's end time, the session has ended: its promise is settled
\* (rejected when fewer than minSamples samples were collected).
C2_SessionEndsAfterDuration ==
    \A s \in SessionIds :
        (timers[s].firedAtEnd /\ ~timers[s].stopped) =>
            timers[s].promise \in {"resolved", "rejected"}

\* C3: a startCalibration() call made while isCalibrating is true is rejected
\* and changes nothing: isCalibrating stays true, the samples and the baseline
\* are kept and no timer is created.
C3_SecondStartRejected ==
    [][(isCalibrating /\ calEvent'.op = "start") =>
          /\ calEvent'.outcome = "rejected"
          /\ isCalibrating'
          /\ samples' = samples
          /\ baseline' = baseline
          /\ timers' = timers]_vars

\* C3 witness: a start was rejected while an active session held samples.
C3_Witness ==
    /\ calEvent.op = "start"
    /\ calEvent.outcome = "rejected"
    /\ isCalibrating
    /\ Len(samples) > 0

\* the values of one field over the samples
FieldValues(ss, f) == { ss[i][f] : i \in 1..Len(ss) }

\* C21: when a session completes with at least minSamples samples, the
\* baseline it resolves with has openness and width equal to the minimum and
\* opennessMax and widthMax equal to the maximum of the sampled openness
\* values and widths, and aspectRatio equal to the mean of the sampled aspect
\* ratios (here rounded down to 0.001); so openness <= opennessMax and
\* width <= widthMax.
C21_BaselineAggregates ==
    calEvent.outcome = "completed" =>
        /\ Len(samples) >= MinSamples
        /\ baseline.openness \in FieldValues(samples, "openness")
        /\ \A v \in FieldValues(samples, "openness") : baseline.openness <= v
        /\ baseline.opennessMax \in FieldValues(samples, "openness")
        /\ \A v \in FieldValues(samples, "openness") : baseline.opennessMax >= v
        /\ baseline.width \in FieldValues(samples, "width")
        /\ \A v \in FieldValues(samples, "width") : baseline.width <= v
        /\ baseline.widthMax \in FieldValues(samples, "width")
        /\ \A v \in FieldValues(samples, "width") : baseline.widthMax >= v
        /\ Len(samples) * baseline.aspectRatio
              <= SeqSum([i \in 1..Len(samples) |-> samples[i].aspectRatio])
        /\ Len(samples) * (baseline.aspectRatio + 1)
              > SeqSum([i \in 1..Len(samples) |-> samples[i].aspectRatio])
        /\ baseline.openness <= baseline.opennessMax
        /\ baseline.width <= baseline.widthMax
        /\ (\A i \in 1..Len(samples) :
                samples[i].openness = 20 /\ samples[i].width = 60) =>
              /\ baseline.openness = 20 /\ baseline.opennessMax = 20
              /\ baseline.width = 60 /\ baseline.widthMax = 60

\* C21 witness: a session completed over samples of different openness, the
\* smaller one sampled first.
C21_Witness ==
    /\ calEvent.outcome = "completed"
    /\ baseline.openness < baseline.opennessMax
    /\ baseline.width < baseline.widthMax
    /\ samples[1].openness < samples[Len(samples)].openness

\* C22: the baseline changes only through setBaseline(B) or the successful
\* completion of a session: a failed session, a session ended by a raising
\* getMetrics, a rejected startCalibration() and startCalibration() itself
\* leave it as it was; after setBaseline(B), getBaseline() returns B.
C22_BaselineHeldUntilReplaced ==
    [][ /\ baseline' # baseline =>
              \/ calEvent'.op = "setBaseline"
              \/ calEvent'.outcome = "completed"
        /\ calEvent'.op = "setBaseline" => baseline' = calEvent'.value
        /\ calEvent'.outcome \in {"failed", "threw", "rejected", "started"} =>
              baseline' = baseline ]_vars

\* C22 witness: a session failed for insufficient samples while the manager
\* held a baseline given by setBaseline.
C22_Witness ==
    /\ calEvent.outcome = "failed"
    /\ baseline \in CalBaselineInputs \ {Null}

\* C29: at most one sampling timer is live per CalibrationManager, whatever
\* the interleaving of startCalibration(), stopCalibration() and timer ticks,
\* and a session is never fed or completed by the timer of a stopped one.
C29_OneLiveTimer ==
    /\ Cardinality({s \in SessionIds : timers[s].state = "live"}) <= 1
    /\ \A s \in SessionIds : timers[s].stopped => ~timers[s].polledAfterStop

\* ---------------------------------------------------- claims: VowelClassifier

\* the history entries whose vowel is v
EntriesOf(history, v) == {i \in 1..Len(history) : history[i].vowel = v}

\* position of the first history entry of v
FirstEntry(history, v) ==
    CHOOSE i \in EntriesOf(history, v) : \A j \in EntriesOf(history, v) : i <= j

\* the vowels present in the history
Present(history) == {history[i].vowel : i \in 1..Len(history)}

\* the class of maximal summed confidence, ties to the one appearing first
ArgMaxFirst(history) ==
    CHOOSE v \in Present(history) :
        \A w \in Present(history) \ {v} :
            \/ CountOf(history, v) > CountOf(history, w)
            \/ /\ CountOf(history, v) = CountOf(history, w)
               /\ FirstEntry(history, v) < FirstEntry(history, w)

\* C4: for every classify() call that reaches the majority vote, the
\* confidence of the vote (before the transition penalty) is the arithmetic
\* mean of the confidences of the history entries of the majority vowel:
\* (sum of their confidences) / (number of those entries).
C4_VoteConfidenceIsMean ==
    vcCall.stage = "vote" =>
        vote.confidence =
            ConfidenceSumFrom(vowelHistory, vote.vowel, 1)
                \div Cardinality(EntriesOf(vowelHistory, vote.vowel))

C6_ConfidenceGate ==
    (vcCall.op = "classify" /\ result # Null) =>
        /\ result.vowel = NullVowel => result.confidence = 0
        /\ result.vowel \in VowelSet => 2 * result.confidence >= PScale
        /\ vcCall.stage = "vote" =>
              IF 2 * result.confidence >= PScale
              THEN result.vowel = vote.vowel
              ELSE result.vowel = NullVowel /\ result.confidence = 0

\* C6 witness: a vote of confidence below 0.5 was gated to vowel = null.
C6_Witness ==
    /\ vcCall.stage = "vote"
    /\ vote.vowel \in VowelSet
    /\ 2 * vote.confidence < PScale
    /\ result.vowel = NullVowel
    /\ result.confidence = 0

\* C7: with onVowelDetected configured, every classify() call invokes it
\* exactly once with the result it returns: for a closed result, a scored
\* vowel result and an empty result (input gate or minimum-score gate).
C7_CallbackOncePerCall ==
    (vcCall.op = "classify" /\ onVowelDetected
        /\ vcCall.stage \in {"input", "closed", "minScore", "vote"}) =>
        callbacks = <<result>>

\* C8: with no baseline set, classify() of metrics with numeric openness,
\* width and aspectRatio and openness <= 0.018 returns vowel = 'closed' with
\* confidence 1.0 whatever width, aspectRatio, the history and the EMA are,
\* and no vowel score is computed.
C8_ClosedAtThreshold ==
    ( /\ vcCall.op = "classify"
      /\ vcBaseline = Null
      /\ vcCall.metrics # Null
      /\ {"openness", "width", "aspectRatio"} \subseteq DOMAIN vcCall.metrics
      /\ LE(vcCall.metrics.openness, 18) ) =>
        /\ vcCall.stage = "closed"
        /\ result # Null
        /\ result.vowel = "closed"
        /\ result.confidence = PScale
        /\ vote = Null

\* C8 witness: a closed result at openness = 0.018 without baseline, returned
\* by a classifier that already holds a history and an EMA.
C8_Witness ==
    /\ vcCall.op = "classify"
    /\ vcBaseline = Null
    /\ vcCall.metrics # Null
    /\ "width" \in DOMAIN vcCall.metrics
    /\ vcCall.metrics.openness = 18
    /\ Len(vowelHistory) > 0
    /\ probabilityEma # Null
    /\ result.vowel = "closed"

\* C9: if metrics is absent or one of openness, width, aspectRatio is not a
\* number, classify() returns the empty result (vowel = null, confidence = 0,
\* all probabilities 0) as a value and never raises, in every classifier state.
C9_EmptyResultOnBadInput ==
    ( /\ vcCall.op = "classify"
      /\ \/ vcCall.metrics = Null
         \/ \E f \in {"openness", "width", "aspectRatio"} :
               f \notin DOMAIN vcCall.metrics ) =>
        /\ vcCall.stage = "input"
        /\ result # Null
        /\ result.vowel = NullVowel
        /\ result.confidence = 0
        /\ \A k \in ProbKeys : result.probabilities[k] = 0

\* C9 witness: metrics without width came back as the empty result from a
\* classifier whose thresholds would make scoring raise and whose history is
\* not empty.
C9_Witness ==
    /\ vcCall.op = "classify"
    /\ vcCall.stage = "input"
    /\ vcCall.metrics # Null
    /\ ScoringThrows(thresholds)
    /\ Len(vowelHistory) > 0
    /\ result = _createEmptyResult

\* C10: in every reachable state the length of vowelHistory is at most
\* historyLength, classify() appends at most one entry, and an append to a
\* full history removes the oldest entry; setBaseline and setThresholds leave
\* the history alone.
C10_HistoryCapped ==
    /\ [](Len(vowelHistory) <= historyLength)
    /\ [][ /\ Len(vowelHistory') <= historyLength'
           /\ vcCall'.stage # "vote" => vowelHistory' = vowelHistory
           /\ vcCall'.stage = "vote" =>
                 \E entry \in [vowel : VowelSet, confidence : 0..PScale] :
                    vowelHistory' =
                       IF Len(vowelHistory) = historyLength
                       THEN Append(Tail(vowelHistory), entry)
                       ELSE Append(vowelHistory, entry) ]_vars

\* C10 witness: after setBaseline and setThresholds calls, a classify() call
\* pushed onto a full history.
C10_Witness ==
    /\ vcCall.stage = "vote"
    /\ Len(vowelHistory) = historyLength
    /\ vowelHistory[1] # vowelHistory[historyLength]
    /\ thresholds # DefaultThresholds
    /\ vcBaseline # Null

\* sum of the entries of a probability vector without NaN entries
SumOfVector(probabilities) ==
    LET keys == DOMAIN probabilities
        sum[S \in SUBSET keys] ==
            IF S = {} THEN 0
            ELSE LET k == CHOOSE x \in S : TRUE
                 IN probabilities[k] + sum[S \ {k}]
    IN sum[keys]

\* the sum of the probabilities of the result of the last classify() call:
\* the smoothed vector of a scored result is the stored EMA
ResultProbabilitySum ==
    IF vcCall.stage = "vote" THEN emaSum ELSE SumOfVector(result.probabilities)

\* C11: in every result returned by classify(), after any sequence of calls,
\* the probabilities sum to 1 or are all zero, for the smoothed vector of a
\* scored result and the vector of a closed result alike.
C11_ProbabilitiesSumToOneOrZero ==
    (vcCall.op = "classify" /\ result # Null) =>
        \/ ResultProbabilitySum = PScale
        \/ /\ ResultProbabilitySum = 0
           /\ \A k \in DOMAIN result.probabilities : result.probabilities[k] = 0

\* every parameter of the constructor's ThresholdProfile is present in th
KeepsAllParameters(th) ==
    /\ DOMAIN DefaultThresholds \subseteq DOMAIN th
    /\ DOMAIN DefaultThresholds.closed \subseteq DOMAIN th.closed
    /\ \A v \in DOMAIN DefaultThresholds.vowels :
          /\ v \in DOMAIN th.vowels
          /\ \A f \in DOMAIN DefaultThresholds.vowels[v] :
                /\ f \in DOMAIN th.vowels[v]
                /\ DOMAIN DefaultThresholds.vowels[v][f]
                      \subseteq DOMAIN th.vowels[v][f]

\* C12: setThresholds(t) deep-merges t into the current thresholds: every
\* parameter not mentioned in t keeps its previous value (so none is ever
\* lost), and a later classify() still scores all five vowels without raising.
C12_SetThresholdsDeepMerges ==
    /\ KeepsAllParameters(thresholds)
    /\ vcCall.stage # "threw"

\* the scores _calculateScores returns for one of the metrics objects above
ScoresOf(metrics) ==
    (CHOOSE in \in ScoredMetrics \cup MinScoreInputs : in.metrics = metrics).scores

\* the largest of the five scores of the metrics of the last call
BestScore == _selectTopVowel(ScoresOf(vcCall.metrics)).maxScore

\* the last call got as far as the comparison with the minimum score
ReachedMinScore(call) == call.op = "classify" /\ call.stage \in {"minScore", "vote"}

\* the last call was rejected exactly when its best score is under the bar of
\* its openness, 0.45 under an openness of 0.04 and 0.28 from there on, and a
\* rejected call returned the empty result
RejectedUnderBar ==
    ReachedMinScore(vcCall) =>
        /\ vcCall.stage = "minScore" <=>
               IF vcCall.metrics.openness < 40
               THEN BestScore * 100 < 45 * PScale
               ELSE BestScore * 100 < 28 * PScale
        /\ vcCall.stage = "minScore" => result = _createEmptyResult

\* C27 as stated: classify() returns the empty result whenever the best of the
\* five scores is below the minimum-score threshold, and of two consecutive
\* non-closed calls the one with the smaller openness has the lower or equal
\* threshold.
C27_ThresholdMonotone ==
    /\ []RejectedUnderBar
    /\ [][ ( /\ ReachedMinScore(vcCall) /\ ReachedMinScore(vcCall')
             /\ vcCall.metrics.openness < vcCall'.metrics.openness )
           => _getMinScoreThreshold(vcCall.metrics)
                 <= _getMinScoreThreshold(vcCall'.metrics) ]_vars

\* C27 amended: classify() returns the empty result whenever the best of the
\* five scores is below the minimum-score threshold, and the threshold is the
\* higher one (0.45) for an openness under 0.04 and the lower one (0.28)
\* otherwise: of two consecutive non-closed calls the one with the smaller
\* openness has the higher or equal threshold.
C27_ThresholdAntitone ==
    /\ []RejectedUnderBar
    /\ [][ ( /\ ReachedMinScore(vcCall) /\ ReachedMinScore(vcCall')
             /\ vcCall.metrics.openness < vcCall'.metrics.openness )
           => _getMinScoreThreshold(vcCall.metrics)
                 >= _getMinScoreThreshold(vcCall'.metrics) ]_vars

\* C27 witness: a call with a narrow opening is rejected with a best score
\* that passes the bar of a wider opening, after an earlier call was scored
C27_Witness ==
    /\ vcCall.op = "classify" /\ vcCall.stage = "minScore"
    /\ vcCall.metrics.openness < 40
    /\ BestScore * 100 >= 28 * PScale
    /\ Len(vowelHistory) > 0

\* C28: a classify() call that ends in the input gate, the closed-mouth gate
\* or the minimum-score gate leaves vowelHistory and the probability EMA as
\* they were; a call that passes the three gates appends one entry to the
\* history it found and blends its probabilities into the EMA it found.
C28_GatedCallsKeepState ==
    [][ vcCall'.op = "classify" =>
          IF vcCall'.stage = "vote"
          THEN LET entry == vowelHistory'[Len(vowelHistory')]
                   scores == ScoresOf(vcCall'.metrics)
                   p == _calculateProbabilities(scores, TotalScore(scores))
               IN /\ vowelHistory' =
                        IF Len(vowelHistory) = historyLength
                        THEN Append(Tail(vowelHistory), entry)
                        ELSE Append(vowelHistory, entry)
                  /\ probabilityEma # Null =>
                        probabilityEma' =
                           [key \in ProbKeys |->
                              (GetOrZero(probabilityEma, key) * SmoothingAlphaPct
                               + GetOrZero(p, key) * (100 - SmoothingAlphaPct))
                              \div 100]
          ELSE /\ vowelHistory' = vowelHistory
               /\ probabilityEma' = probabilityEma ]_vars

\* C28 witness: a call rejected at the minimum-score gate finds a full history
\* and an EMA from earlier scored calls
C28_Witness ==
    /\ vcCall.op = "classify" /\ vcCall.stage = "minScore"
    /\ Len(vowelHistory) = historyLength
    /\ probabilityEma # Null

\* ------------------------------------------------------------ claims: Smoother

OnlyKeys(pv, keep) == [k \in DOMAIN pv \cap keep |-> pv[k]]

\* C20: smooth(k1, P) reads and writes only the stored value of k1: the value
\* a smooth(k, Q) returns does not depend on what is stored for other keys,
\* and a smooth step leaves the stored value of every other key as it was.
C20_SmoothingIsPerKey ==
    /\ [](\A k \in SmootherKeys : \A q \in SmoothInputs :
            SmoothOutcome(previousValues, smoothingFactor, k, q).result
               = SmoothOutcome(OnlyKeys(previousValues, {k}), smoothingFactor,
                               k, q).result)
    /\ [][ smEvent'.op = "smooth" =>
             \A k2 \in SmootherKeys \ {smEvent'.key} :
                /\ k2 \in DOMAIN previousValues' <=> k2 \in DOMAIN previousValues
                /\ k2 \in DOMAIN previousValues =>
                      previousValues'[k2] = previousValues[k2] ]_vars

\* C20 witness: a smoothing step on one key while the other key holds a
\* different stored value.
C20_Witness ==
    /\ smEvent.op = "smooth"
    /\ IsNumericPoint(smEvent.value)
    /\ DOMAIN previousValues = SmootherKeys
    /\ smEvent.result # smEvent.value
    /\ \E k2 \in SmootherKeys \ {smEvent.key} :
          previousValues[k2] # previousValues[smEvent.key]

\* ------------------------------------------- claims: TemporalFeatureExtractor

\* frames is what is left of all after dropping some of its oldest entries
IsSuffix(frames, all) ==
    /\ Len(frames) <= Len(all)
    /\ \A i \in 1..Len(frames) : frames[i] = all[Len(all) - Len(frames) + i]

\* C17: in every reachable state (after any sequence of addFrame,
\* setBufferSize and reset) the buffer length is at most the current capacity
\* and the buffer holds exactly the most recently added frames in arrival
\* order; an addFrame leaves the added frame as the newest entry, and on
\* overflow the oldest entry is the one evicted.
C17_BufferHoldsMostRecent ==
    /\ [](Len(tfHistory) <= bufferSize /\ IsSuffix(tfHistory, arrivals))
    /\ [][ (tfEvent'.op = "addFrame" /\ tfEvent'.added) =>
             /\ tfHistory' # <<>>
             /\ tfHistory'[Len(tfHistory')] = arrivals'[Len(arrivals')]
             /\ Len(tfHistory) = bufferSize =>
                   tfHistory' = Append(Tail(tfHistory),
                                       arrivals'[Len(arrivals')]) ]_vars

\* C18: the capacity of the temporal buffer is always within [1, 120],
\* whatever size the constructor option bufferSize or setBufferSize asked
\* for, so the buffer never holds more than 120 frames.
C18_CapacityClamped ==
    /\ bufferSize >= BufferSizeMin
    /\ bufferSize <= BufferSizeMax
    /\ Len(tfHistory) <= BufferSizeMax

\* ------------------------------------------------------ claims: MouthTracker

\* the landmarks of a delivered result equal the raw landmarks of the frame
RawLandmarks(data, frame) ==
    \A k \in DOMAIN frame :
        /\ data.landmarks[k].x = frame[k].x
        /\ data.landmarks[k].y = frame[k].y
        /\ FieldOr0(data.landmarks[k], "z") = FieldOr0(frame[k], "z")

C14_OneLoopAlive == Cardinality({l \in LoopIds : Alive(l)}) <= 1

C16_QualityGate ==
    mtEvent.op = "processResults" =>
        \A i \in 1..Len(mtEvent.delivered) :
            /\ "quality" \in DOMAIN mtEvent.delivered[i]
            /\ ( /\ mtEvent.frame # Null
                 /\ mtEvent.frame.bottomOuter.z = MaxCoord ) =>
                    /\ mtEvent.delivered[i].metrics = Null
                    /\ ~tfEvent.added

\* C30: after stop() returns and until the next start(), nothing is handed to
\* onDataUpdate and the smoother, the temporal buffer and lastMetrics do not
\* change, also when a send() that was in flight at stop() completes.
C30_SilentAfterStop ==
    [][ (~isTracking /\ ~isTracking') =>
           /\ mtEvent'.delivered = <<>>
           /\ previousValues' = previousValues
           /\ tfHistory' = tfHistory
           /\ lastMetrics' = lastMetrics ]_vars

\* C24: for a key with a stored value prev, smooth(k, new) returns
\* prev*factor + new*(1-factor) on each axis (a missing z counting as 0) and
\* stores the value it returns, so the next call blends with the last
\* returned value and not with the last raw input.
C24_BlendsWithLastReturned ==
    [][ ( /\ smEvent'.op = "smooth"
          /\ IsNumericPoint(smEvent'.value)
          /\ smEvent'.key \in DOMAIN previousValues ) =>
        LET prev == previousValues[smEvent'.key]
            new == smEvent'.value
            f == smoothingFactor
        IN /\ smEvent'.result.x = (prev.x * f + new.x * (100 - f)) \div 100
           /\ smEvent'.result.y = (prev.y * f + new.y * (100 - f)) \div 100
           /\ smEvent'.result.z =
                 (FieldOr0(prev, "z") * f + FieldOr0(new, "z") * (100 - f)) \div 100
           /\ previousValues'[smEvent'.key] = smEvent'.result
           /\ \A k \in DOMAIN previousValues \ {smEvent'.key} :
                 previousValues'[k] = previousValues[k] ]_vars

\* C24 witness: with factor 0.5, a smooth of the far end of the axis returns
\* three quarters of it: the third call of origin, far end, far end.
C24_Witness ==
    /\ smEvent.op = "smooth"
    /\ smoothingFactor = 50
    /\ IsNumericPoint(smEvent.value)
    /\ smEvent.value.x = MaxCoord
    /\ 4 * smEvent.result.x = 3 * MaxCoord
    /\ previousValues[smEvent.key] = smEvent.result

\* C25: getVelocity(feature) is 0 when the buffer holds fewer than 2 frames
\* or the two most recent frames have equal timestamps; otherwise it is the
\* value of the newest frame minus the value of the frame before it, divided
\* by their timestamp difference in seconds (here rounded towards zero to
\* 0.001 per second), whatever older frames hold.
C25_VelocityOfLastTwo ==
    (tfEvent.op = "getAllTemporalFeatures" /\ tfEvent.features # Null) =>
        \A f \in {"openness", "width"} :
            LET n == Len(tfHistory)
                v == tfEvent.features[f].velocity
            IN IF n < 2 THEN v = 0
               ELSE LET dt == tfHistory[n].timestamp - tfHistory[n - 1].timestamp
                        dv == tfHistory[n].metrics[f] - tfHistory[n - 1].metrics[f]
                    IN IF dt = 0 THEN v = 0
                       ELSE /\ (dv >= 0) => (v * dt <= 10 * dv /\ 10 * dv < (v + 1) * dt)
                            /\ (dv < 0) => (v * dt >= 10 * dv /\ 10 * dv > (v - 1) * dt)

\* C25 witness: openness 0.10 and, 100 ms later, 0.12 as the two most recent
\* of at least three frames give 0.2 per second, the oldest frame holding
\* 0.12 as well.
C25_Witness ==
    /\ tfEvent.op = "getAllTemporalFeatures"
    /\ Len(tfHistory) >= 3
    /\ tfHistory[1].metrics.openness = 120
    /\ tfHistory[Len(tfHistory) - 1].metrics.openness = 100
    /\ tfHistory[Len(tfHistory)].metrics.openness = 120
    /\ tfHistory[Len(tfHistory)].timestamp
          = tfHistory[Len(tfHistory) - 1].timestamp + 1
    /\ tfHistory[1].timestamp < tfHistory[Len(tfHistory) - 1].timestamp
    /\ tfEvent.features.openness.velocity = 200

\* the pairs i, i+1 among the last five frames whose difference of feature f
\* times sign is above 0.001
Moves(frames, f, sign) ==
    { i \in (Len(frames) - 4)..(Len(frames) - 1) :
        sign * (frames[i + 1].metrics[f] - frames[i].metrics[f]) > 1 }

C23_AspectRatioOfRecord ==
    dpMetrics # Null =>
        LET expected == AspectRatioOf(dpMetrics.width, dpMetrics.openness)
        IN /\ dpMetrics.aspectRatio - expected <= 2
           /\ expected - dpMetrics.aspectRatio <= 2

\* the frame pipeline's components after construction
PipeInit == SmInit /\ TfInit(Null) /\ MtInit /\ DpInit

\* a TemporalFeatureExtractor constructed with any of the options
InitTemporal ==
    /\ CalInit /\ VcInit(HistoryCap) /\ SmInit /\ MtInit /\ DpInit
    /\ \E options \in BufferSizeOptions : TfInit(options)

Init == CalInit /\ VcInit(HistoryCap) /\ PipeInit

\* a classifier constructed with the default history length
InitVote == CalInit /\ VcInit(HistoryLengthDefault) /\ PipeInit

SpecCal == Init /\ [][CalNext]_vars

SpecBaseline == Init /\ [][BaselineNext]_vars

SpecVC == Init /\ [][VcNext]_vars

SpecVote == InitVote /\ [][VoteNext]_vars

SpecMinScore == Init /\ [][MinScoreNext]_vars

SpecGates == Init /\ [][GatesNext]_vars

SpecSmoother == Init /\ [][SmNext]_vars

SpecTemporal == InitTemporal /\ [][TfNext]_vars

SpecFeatures == Init /\ [][FeaturesNext]_vars

SpecTracker == Init /\ [][TrackerNext]_vars

SpecFrames == Init /\ [][FramesNext]_vars

SpecMetrics == Init /\ [][DpNext]_vars

====
